---- MODULE Spec2Model ----
(***************************************************************************)
(* Backend child-process supervisor of packages/frontend/src-tauri/src/    *)
(* lib.rs: the BackendProcess slot (Mutex<Option<Child>>), the command     *)
(* start_backend, the port scan find_available_port and the RunEvent::Exit *)
(* handler of backend_cleanup_plugin.                                      *)
(*                                                                         *)
(* Every system call of the code is one step; a call whose result the code *)
(* branches on is followed by a second step that takes the branch, so that *)
(* what the call observed is part of the state the branch starts from.     *)
(* The operating system is the environment: a running child may exit at    *)
(* any moment, and the outcome of each call is drawn from the outcomes the *)
(* call can have.  Child::kill and Child::wait, whose results the code     *)
(* discards, act as documented: kill forces the child to exit, wait blocks *)
(* until it has exited and reaps it.  Child::try_wait, whose Err result    *)
(* the code handles, may return Err whatever the child's status is.        *)
(* No code path panics while it holds the Mutex, so lock() never returns   *)
(* a poison error; the optional --env-file argument (lines 144-158) does   *)
(* not affect the state modelled here.                                     *)
(***************************************************************************)
EXTENDS Integers, Sequences, FiniteSets, TLC

\* ---------------------------------------------------------------- bounds
NumCallers == 2
MaxSpawns == 2
MaxGuardRuns == 2

\* ------------------------------------------------------ program constants
PortLo == 3001
PortHi == 3010
Ports == PortLo..PortHi

\* Option<u16>::None of find_available_port
NoPort == 0
\* the Mutex is unlocked
Free == 0

Callers == 1..NumCallers
\* the lock holder id of the RunEvent::Exit handler
GuardHolder == NumCallers + 1

\* Option<Child>::None; a Child is its pid with the --port argument it got
NoChild == [pid |-> 0, port |-> NoPort]

\* Result<u16, String>
NoResult == [kind |-> "none", port |-> NoPort]
Ok(p) == [kind |-> "Ok", port |-> p]
Err(e) == [kind |-> e, port |-> NoPort]
AlreadyRunning == Err("AlreadyRunning")
NoPortAvailable == Err("NoPortAvailable")
LogSetupFailed == Err("LogSetupFailed")
EntryPointNotFound == Err("EntryPointNotFound")
SpawnFailed == Err("SpawnFailed")
Errors == {AlreadyRunning, NoPortAvailable, LogSetupFailed, EntryPointNotFound, SpawnFailed}

VARIABLES
  slot,       \* BackendProcess.0: NoChild or the tracked Child
  lock,       \* holder of the Mutex: Free, a caller, or GuardHolder
  children,   \* OS process table: status of every child spawned, by pid
  killed,     \* pids that were sent the kill signal
  warned,     \* log::warn! of the try_wait Err branch was emitted
  pc,         \* per invocation: position in start_backend
  probe,      \* per invocation: what child.try_wait() returned
  occupied,   \* per invocation: ports on which TcpListener::bind fails
  port,       \* per invocation: the port find_available_port returned
  logres,     \* per invocation: outcome of the log-file setup
  fs,         \* per invocation: current_exe() and which candidates exist
  script,     \* per invocation: the resolved backend_script
  spawned,    \* per invocation: outcome of Command::spawn
  child,      \* per invocation: the Child that spawn returned
  result,     \* per invocation: the value returned to the host
  gpc,        \* position of the RunEvent::Exit handler
  guardRuns   \* completed runs of the RunEvent::Exit handler

locals == <<probe, occupied, port, logres, fs, script, spawned, child>>
procs == <<children, killed>>
guardv == <<gpc, guardRuns>>
vars == <<slot, lock, children, killed, warned, pc, probe, occupied, port,
          logres, fs, script, spawned, child, result, gpc, guardRuns>>

Pids == 1..Len(children)
Running == {c \in Pids : children[c] = "running"}

NoFs == [exe |-> FALSE, exists |-> {}]

Init ==
  /\ slot = NoChild
  /\ lock = Free
  /\ children = <<>>
  /\ killed = {}
  /\ warned = FALSE
  /\ pc = [t \in Callers |-> "idle"]
  /\ probe = [t \in Callers |-> "none"]
  /\ occupied = [t \in Callers |-> {}]
  /\ port = [t \in Callers |-> NoPort]
  /\ logres = [t \in Callers |-> "none"]
  /\ fs = [t \in Callers |-> NoFs]
  /\ script = [t \in Callers |-> "none"]
  /\ spawned = [t \in Callers |-> "none"]
  /\ child = [t \in Callers |-> NoChild]
  /\ result = [t \in Callers |-> NoResult]
  /\ gpc = "idle"
  /\ guardRuns = 0

\* ------------------------------------------------------------ environment

\* A running child exits, on its own or because it was killed.
ChildExit(c) ==
  /\ c \in Running
  /\ children' = [children EXCEPT ![c] = "exited"]
  /\ UNCHANGED <<slot, lock, killed, warned, pc, locals, result, guardv>>

\* --------------------------------------------------------- start_backend

Goto(t, l) == pc' = [pc EXCEPT ![t] = l]

\* `return`/`?`: the value goes to the host, the MutexGuard (if held) drops
Return(t, r) ==
  /\ pc' = [pc EXCEPT ![t] = "done"]
  /\ result' = [result EXCEPT ![t] = r]

\* The host invokes the command.  The host serializes: no other invocation
\* and no Exit handler is in progress, and the Exit event has not been sent.
Invoke(t) ==
  /\ pc[t] = "idle"
  /\ \A u \in Callers : pc[u] = "idle"
  /\ gpc = "idle" /\ guardRuns = 0
  /\ Len(children) < MaxSpawns
  /\ Goto(t, "lock1")
  /\ UNCHANGED <<slot, lock, procs, warned, locals, result, guardv>>

\* first block: state.0.lock()
FirstLock(t) ==
  /\ pc[t] = "lock1"
  /\ lock = Free
  /\ lock' = t
  /\ Goto(t, "read1")
  /\ UNCHANGED <<slot, procs, warned, locals, result, guardv>>

\* FirstUnlock with the first block resetting the slot it looked at
FirstUnlock_Clears(t) ==
  /\ pc[t] = "read1"
  /\ slot' = NoChild
  /\ lock' = Free
  /\ Goto(t, "lock2")
  /\ UNCHANGED <<procs, warned, locals, result, guardv>>

\* first block: child.id() is read and dropped, the guard drops
FirstUnlock(t) ==
  /\ pc[t] = "read1"
  /\ lock' = Free
  /\ Goto(t, "lock2")
  /\ UNCHANGED <<slot, procs, warned, locals, result, guardv>>

\* second block: state.0.lock()
SecondLock(t) ==
  /\ pc[t] = "lock2"
  /\ lock = Free
  /\ lock' = t
  /\ Goto(t, "trywait")
  /\ UNCHANGED <<slot, procs, warned, locals, result, guardv>>

\* Child::try_wait on a child of the given status: the outcomes it can have
try_wait(st) ==
  CASE st = "running" -> {"running", "err"}
    [] st = "exited" -> {"exited", "err"}
    [] OTHER -> {"err"}

\* second block: `if let Some(ref mut child)`; child.try_wait()
TryWait(t) ==
  /\ pc[t] = "trywait"
  /\ IF slot = NoChild
       THEN /\ lock' = Free
            /\ Goto(t, "bind")
            /\ UNCHANGED <<probe, children>>
       ELSE /\ \E o \in try_wait(children[slot.pid]) :
                 /\ probe' = [probe EXCEPT ![t] = o]
                 /\ children' = IF o = "exited"
                                  THEN [children EXCEPT ![slot.pid] = "reaped"]
                                  ELSE children
            /\ Goto(t, "match")
            /\ UNCHANGED lock
  /\ UNCHANGED <<slot, killed, warned, occupied, port, logres, fs, script,
                 spawned, child, result, guardv>>

\* MatchStatus with the early return of the Ok(None) arm left out
MatchStatus_RunningFallsThrough(t) ==
  /\ pc[t] = "match"
  /\ lock' = Free
  /\ CASE probe[t] = "exited" ->
            /\ slot' = NoChild
            /\ Goto(t, "bind")
            /\ UNCHANGED <<warned, result>>
       [] probe[t] = "running" ->
            /\ Goto(t, "bind")
            /\ UNCHANGED <<slot, warned, result>>
       [] OTHER ->
            /\ warned' = TRUE
            /\ slot' = NoChild
            /\ Goto(t, "bind")
            /\ UNCHANGED result
  /\ UNCHANGED <<procs, locals, guardv>>

\* MatchStatus with the Ok(None) arm clearing the slot before it returns
MatchStatus_RunningClears(t) ==
  /\ pc[t] = "match"
  /\ lock' = Free
  /\ CASE probe[t] = "exited" ->
            /\ slot' = NoChild
            /\ Goto(t, "bind")
            /\ UNCHANGED <<warned, result>>
       [] probe[t] = "running" ->
            /\ slot' = NoChild
            /\ Return(t, AlreadyRunning)
            /\ UNCHANGED warned
       [] OTHER ->
            /\ warned' = TRUE
            /\ slot' = NoChild
            /\ Goto(t, "bind")
            /\ UNCHANGED result
  /\ UNCHANGED <<procs, locals, guardv>>

\* MatchStatus with `*guard = None` left out of the Ok(Some) arm
MatchStatus_ExitedKeeps(t) ==
  /\ pc[t] = "match"
  /\ lock' = Free
  /\ CASE probe[t] = "exited" ->
            /\ Goto(t, "bind")
            /\ UNCHANGED <<slot, warned, result>>
       [] probe[t] = "running" ->
            /\ Return(t, AlreadyRunning)
            /\ UNCHANGED <<slot, warned>>
       [] OTHER ->
            /\ warned' = TRUE
            /\ slot' = NoChild
            /\ Goto(t, "bind")
            /\ UNCHANGED result
  /\ UNCHANGED <<procs, locals, guardv>>

\* MatchStatus with the Ok(Some) arm rejecting like the Ok(None) arm
MatchStatus_ExitedRejects(t) ==
  /\ pc[t] = "match"
  /\ lock' = Free
  /\ CASE probe[t] \in {"exited", "running"} ->
            /\ Return(t, AlreadyRunning)
            /\ UNCHANGED <<slot, warned>>
       [] OTHER ->
            /\ warned' = TRUE
            /\ slot' = NoChild
            /\ Goto(t, "bind")
            /\ UNCHANGED result
  /\ UNCHANGED <<procs, locals, guardv>>

\* MatchStatus with the MutexGuard kept alive past the block on the arms
\* that go on to launch
MatchStatus_HoldsLock(t) ==
  /\ pc[t] = "match"
  /\ CASE probe[t] = "exited" ->
            /\ slot' = NoChild
            /\ Goto(t, "bind")
            /\ UNCHANGED <<lock, warned, result>>
       [] probe[t] = "running" ->
            /\ lock' = Free
            /\ Return(t, AlreadyRunning)
            /\ UNCHANGED <<slot, warned>>
       [] OTHER ->
            /\ warned' = TRUE
            /\ slot' = NoChild
            /\ Goto(t, "bind")
            /\ UNCHANGED <<lock, result>>
  /\ UNCHANGED <<procs, locals, guardv>>

\* MatchStatus with try_wait()? in place of the Err arm
MatchStatus_ErrPropagates(t) ==
  /\ pc[t] = "match"
  /\ lock' = Free
  /\ CASE probe[t] = "exited" ->
            /\ slot' = NoChild
            /\ Goto(t, "bind")
            /\ UNCHANGED <<warned, result>>
       [] probe[t] = "running" ->
            /\ Return(t, AlreadyRunning)
            /\ UNCHANGED <<slot, warned>>
       [] OTHER ->
            /\ Return(t, Err("TryWaitFailed"))
            /\ UNCHANGED <<slot, warned>>
  /\ UNCHANGED <<procs, locals, guardv>>

\* MatchStatus with the MutexGuard leaked on the early return
MatchStatus_RejectKeepsLock(t) ==
  /\ pc[t] = "match"
  /\ CASE probe[t] = "exited" ->
            /\ lock' = Free
            /\ slot' = NoChild
            /\ Goto(t, "bind")
            /\ UNCHANGED <<warned, result>>
       [] probe[t] = "running" ->
            /\ Return(t, AlreadyRunning)
            /\ UNCHANGED <<lock, slot, warned>>
       [] OTHER ->
            /\ lock' = Free
            /\ warned' = TRUE
            /\ slot' = NoChild
            /\ Goto(t, "bind")
            /\ UNCHANGED result
  /\ UNCHANGED <<procs, locals, guardv>>

\* second block: the three arms of the match
MatchStatus(t) ==
  /\ pc[t] = "match"
  /\ lock' = Free
  /\ CASE probe[t] = "exited" ->
            /\ slot' = NoChild
            /\ Goto(t, "bind")
            /\ UNCHANGED <<warned, result>>
       [] probe[t] = "running" ->
            /\ Return(t, AlreadyRunning)
            /\ UNCHANGED <<slot, warned>>
       [] OTHER ->
            /\ warned' = TRUE
            /\ slot' = NoChild
            /\ Goto(t, "bind")
            /\ UNCHANGED result
  /\ UNCHANGED <<procs, locals, guardv>>

\* scan over the half-open range 3001..3010
RECURSIVE scan_exclusive(_, _)
scan_exclusive(p, occ) ==
  IF p >= PortHi THEN NoPort
  ELSE IF p \notin occ THEN p
  ELSE scan_exclusive(p + 1, occ)

\* the loop of find_available_port from `p` on
RECURSIVE scan(_, _)
scan(p, occ) ==
  IF p > PortHi THEN NoPort
  ELSE IF p \notin occ THEN p
  ELSE scan(p + 1, occ)

find_available_port(occ) == scan(PortLo, occ)

\* the ports other listeners hold while find_available_port runs
OccInputs == SUBSET Ports

\* TcpListener::bind fails on the occupied ports, one of the sets in Occ
BindProbeFrom(t, Occ) ==
  /\ pc[t] = "bind"
  /\ \E occ \in Occ : occupied' = [occupied EXCEPT ![t] = occ]
  /\ Goto(t, "findport")
  /\ UNCHANGED <<slot, lock, procs, warned, probe, port, logres, fs, script,
                 spawned, child, result, guardv>>

\* FindPort with unwrap_or(3001) in place of ok_or(..)?
FindPort_Fallback(t) ==
  /\ pc[t] = "findport"
  /\ LET p == find_available_port(occupied[t]) IN
       /\ port' = [port EXCEPT ![t] = IF p = NoPort THEN PortLo ELSE p]
       /\ Goto(t, "logsetup")
       /\ UNCHANGED result
  /\ occupied' = [occupied EXCEPT ![t] = {}]
  /\ UNCHANGED <<slot, lock, procs, warned, probe, logres, fs, script,
                 spawned, child, guardv>>

BindProbe(t) == BindProbeFrom(t, OccInputs)

\* find_available_port().ok_or(..)?; the test sockets are released
FindPort(t) ==
  /\ pc[t] = "findport"
  /\ LET p == find_available_port(occupied[t]) IN
       IF p = NoPort
         THEN /\ Return(t, NoPortAvailable)
              /\ UNCHANGED port
         ELSE /\ port' = [port EXCEPT ![t] = p]
              /\ Goto(t, "logsetup")
              /\ UNCHANGED result
  /\ occupied' = [occupied EXCEPT ![t] = {}]
  /\ UNCHANGED <<slot, lock, procs, warned, probe, logres, fs, script,
                 spawned, child, guardv>>

\* app_data_dir, create_dir_all, open, try_clone: the first that fails, or ok
LogOutcomes == {"ok", "app_data_dir", "create_dir_all", "open", "try_clone"}

LogSetupFrom(t, Outcomes) ==
  /\ pc[t] = "logsetup"
  /\ \E o \in Outcomes : logres' = [logres EXCEPT ![t] = o]
  /\ Goto(t, "logcheck")
  /\ UNCHANGED <<slot, lock, procs, warned, probe, occupied, port, fs, script,
                 spawned, child, result, guardv>>

\* LogCheck with the errors of the log setup dropped (.ok() in place of ?)
LogCheck_Ignores(t) ==
  /\ pc[t] = "logcheck"
  /\ Goto(t, "resolve")
  /\ UNCHANGED <<slot, lock, procs, warned, locals, result, guardv>>

LogSetup(t) == LogSetupFrom(t, LogOutcomes)

\* the four `?` of the log setup
LogCheck(t) ==
  /\ pc[t] = "logcheck"
  /\ IF logres[t] = "ok"
       THEN Goto(t, "resolve") /\ UNCHANGED result
       ELSE Return(t, LogSetupFailed)
  /\ UNCHANGED <<slot, lock, procs, warned, locals, guardv>>

\* the executable-relative candidates, in the order of the vec!
Candidates == <<"up3", "up4", "up5">>
CwdCandidate == "cwd"
FsInputs == [exe : BOOLEAN, exists : SUBSET {"up3", "up4", "up5", "cwd"}]

\* the candidates loop without its `break`: the last existing one wins
RECURSIVE first_existing_nobreak(_, _, _)
first_existing_nobreak(cands, i, exists) ==
  IF i > Len(cands) THEN "none"
  ELSE LET rest == first_existing_nobreak(cands, i + 1, exists) IN
       IF rest # "none" THEN rest
       ELSE IF cands[i] \in exists THEN cands[i]
       ELSE "none"

\* the `for candidate in &candidates` loop from index `i` on
RECURSIVE first_existing(_, _, _)
first_existing(cands, i, exists) ==
  IF i > Len(cands) THEN "none"
  ELSE IF cands[i] \in exists THEN cands[i]
  ELSE first_existing(cands, i + 1, exists)

\* the block computing backend_script ("none": found is None)
resolve_script(f) ==
  LET candidates == IF f.exe THEN Candidates ELSE <<>>
      found == first_existing(candidates, 1, f.exists)
  IN IF found = "none" /\ CwdCandidate \in f.exists THEN CwdCandidate ELSE found

\* current_exe(), canonicalize() and exists() are answered by the file system
ResolveProbeFrom(t, Fs) ==
  /\ pc[t] = "resolve"
  /\ \E f \in Fs : fs' = [fs EXCEPT ![t] = f]
  /\ Goto(t, "findscript")
  /\ UNCHANGED <<slot, lock, procs, warned, probe, occupied, port, logres,
                 script, spawned, child, result, guardv>>

ResolveProbe(t) == ResolveProbeFrom(t, FsInputs)

\* found.ok_or_else(..)?
ResolveScript(t) ==
  /\ pc[t] = "findscript"
  /\ LET s == resolve_script(fs[t]) IN
       IF s = "none"
         THEN /\ Return(t, EntryPointNotFound)
              /\ UNCHANGED script
         ELSE /\ script' = [script EXCEPT ![t] = s]
              /\ Goto(t, "spawn")
              /\ UNCHANGED result
  /\ fs' = [fs EXCEPT ![t] = NoFs]
  /\ UNCHANGED <<slot, lock, procs, warned, probe, occupied, port, logres,
                 spawned, child, guardv>>

\* cmd...arg("--port").arg(port.to_string())...spawn()
Spawn(t) ==
  /\ pc[t] = "spawn"
  /\ \/ /\ spawned' = [spawned EXCEPT ![t] = "ok"]
        /\ children' = Append(children, "running")
        /\ child' = [child EXCEPT ![t] = [pid |-> Len(children) + 1, port |-> port[t]]]
     \/ /\ spawned' = [spawned EXCEPT ![t] = "fail"]
        /\ UNCHANGED <<children, child>>
  /\ Goto(t, "spawncheck")
  /\ UNCHANGED <<slot, lock, killed, warned, probe, occupied, port, logres, fs,
                 script, result, guardv>>

\* .map_err(..)? on the result of spawn
SpawnCheck(t) ==
  /\ pc[t] = "spawncheck"
  /\ IF spawned[t] = "ok"
       THEN Goto(t, "lock3") /\ UNCHANGED result
       ELSE Return(t, SpawnFailed)
  /\ UNCHANGED <<slot, lock, procs, warned, locals, guardv>>

\* last block: state.0.lock()
ThirdLock(t) ==
  /\ pc[t] = "lock3"
  /\ lock = Free
  /\ lock' = t
  /\ Goto(t, "store")
  /\ UNCHANGED <<slot, procs, warned, locals, result, guardv>>

\* StoreChild with `*guard = Some(child)` left out
StoreChild_Forgets(t) ==
  /\ pc[t] = "store"
  /\ lock' = Free
  /\ Return(t, Ok(port[t]))
  /\ UNCHANGED <<slot, procs, warned, locals, guardv>>

\* *guard = Some(child); Ok(port)
StoreChild(t) ==
  /\ pc[t] = "store"
  /\ slot' = child[t]
  /\ lock' = Free
  /\ Return(t, Ok(port[t]))
  /\ UNCHANGED <<procs, warned, locals, guardv>>

\* the host takes the result; the locals of the invocation are gone
Respond(t) ==
  /\ pc[t] = "done"
  /\ Goto(t, "idle")
  /\ probe' = [probe EXCEPT ![t] = "none"]
  /\ port' = [port EXCEPT ![t] = NoPort]
  /\ logres' = [logres EXCEPT ![t] = "none"]
  /\ script' = [script EXCEPT ![t] = "none"]
  /\ spawned' = [spawned EXCEPT ![t] = "none"]
  /\ child' = [child EXCEPT ![t] = NoChild]
  /\ result' = [result EXCEPT ![t] = NoResult]
  /\ UNCHANGED <<slot, lock, procs, warned, occupied, fs, guardv>>

\* ------------------------------------------- backend_cleanup_plugin (guard)

\* the host delivers RunEvent::Exit; app.try_state() finds the managed state
GuardBegin ==
  /\ gpc = "idle"
  /\ guardRuns < MaxGuardRuns
  /\ \A u \in Callers : pc[u] = "idle"
  /\ gpc' = "lock"
  /\ UNCHANGED <<slot, lock, procs, warned, pc, locals, result, guardRuns>>

\* state.0.lock()
GuardLock ==
  /\ gpc = "lock"
  /\ lock = Free
  /\ lock' = GuardHolder
  /\ gpc' = "check"
  /\ UNCHANGED <<slot, procs, warned, pc, locals, result, guardRuns>>

\* if let Some(ref mut child) = *guard
GuardCheck ==
  /\ gpc = "check"
  /\ gpc' = IF slot = NoChild THEN "clear" ELSE "kill"
  /\ UNCHANGED <<slot, lock, procs, warned, pc, locals, result, guardRuns>>

\* GuardKill with the MutexGuard dropped after the kill (the clear then
\* happens without the lock)
GuardKill_Unlocks ==
  /\ gpc = "kill"
  /\ killed' = killed \cup {slot.pid}
  /\ lock' = Free
  /\ gpc' = "wait"
  /\ UNCHANGED <<slot, children, warned, pc, locals, result, guardRuns>>

\* let _ = child.kill()
GuardKill ==
  /\ gpc = "kill"
  /\ killed' = killed \cup {slot.pid}
  /\ gpc' = "wait"
  /\ UNCHANGED <<slot, lock, children, warned, pc, locals, result, guardRuns>>

\* GuardWait with a wait that does not block (try_wait in place of wait)
GuardWait_NoBlock ==
  /\ gpc = "wait"
  /\ children' = IF children[slot.pid] = "running"
                   THEN children
                   ELSE [children EXCEPT ![slot.pid] = "reaped"]
  /\ gpc' = "clear"
  /\ UNCHANGED <<slot, lock, killed, warned, pc, locals, result, guardRuns>>

\* let _ = child.wait(): returns once the child has exited, and reaps it
GuardWait ==
  /\ gpc = "wait"
  /\ children[slot.pid] # "running"
  /\ children' = [children EXCEPT ![slot.pid] = "reaped"]
  /\ gpc' = "clear"
  /\ UNCHANGED <<slot, lock, killed, warned, pc, locals, result, guardRuns>>

\* GuardClear with `*guard = None` left out
GuardClear_Keeps ==
  /\ gpc = "clear"
  /\ lock' = Free
  /\ gpc' = "idle"
  /\ guardRuns' = guardRuns + 1
  /\ UNCHANGED <<slot, procs, warned, pc, locals, result>>

\* *guard = None; the guard drops
GuardClear ==
  /\ gpc = "clear"
  /\ slot' = NoChild
  /\ lock' = Free
  /\ gpc' = "idle"
  /\ guardRuns' = guardRuns + 1
  /\ UNCHANGED <<procs, warned, pc, locals, result>>

\* ---------------------------------------------------------- specification

Next ==
  \/ \E c \in Pids : ChildExit(c)
  \/ \E t \in Callers :
       \/ Invoke(t)
       \/ FirstLock(t)
       \/ FirstUnlock(t)
       \/ SecondLock(t)
       \/ TryWait(t)
       \/ MatchStatus(t)
       \/ BindProbe(t)
       \/ FindPort(t)
       \/ LogSetup(t)
       \/ LogCheck(t)
       \/ ResolveProbe(t)
       \/ ResolveScript(t)
       \/ Spawn(t)
       \/ SpawnCheck(t)
       \/ ThirdLock(t)
       \/ StoreChild(t)
       \/ Respond(t)
  \/ GuardBegin
  \/ GuardLock
  \/ GuardCheck
  \/ GuardKill
  \/ GuardWait
  \/ GuardClear

Spec == Init /\ [][Next]_vars

\* ------------------------------------- the host not serializing (threads)

\* the two threads on which the host runs invocations at the same time
ConcCallers == {1, NumCallers}

\* invocations that have been invoked and have not returned
InFlight == {u \in Callers : pc[u] \notin {"idle", "done"}}

\* The host invokes the command while other invocations, or the Exit
\* handler, may be in progress; none is invoked once the handler has run.
InvokeConc(t) ==
  /\ t \in ConcCallers
  /\ pc[t] = "idle"
  /\ guardRuns = 0
  /\ Len(children) + Cardinality(InFlight) < MaxSpawns
  /\ Goto(t, "lock1")
  /\ UNCHANGED <<slot, lock, procs, warned, locals, result, guardv>>

\* The host delivers RunEvent::Exit while invocations may be in progress.
GuardBeginConc ==
  /\ gpc = "idle"
  /\ guardRuns < MaxGuardRuns
  /\ gpc' = "lock"
  /\ UNCHANGED <<slot, lock, procs, warned, pc, locals, result, guardRuns>>

\* the inputs of concurrent runs: no port or every port occupied, the log
\* setup succeeding or open() failing, the first candidate or none existing
OccInputsConc == {{}, Ports}
LogOutcomesConc == {"ok", "open"}
FsInputsConc == {[exe |-> TRUE, exists |-> {"up3"}], NoFs}

NextConc ==
  \/ \E c \in Pids : ChildExit(c)
  \/ \E t \in Callers :
       \/ InvokeConc(t)
       \/ FirstLock(t)
       \/ FirstUnlock(t)
       \/ SecondLock(t)
       \/ TryWait(t)
       \/ MatchStatus(t)
       \/ BindProbeFrom(t, OccInputsConc)
       \/ FindPort(t)
       \/ LogSetupFrom(t, LogOutcomesConc)
       \/ LogCheck(t)
       \/ ResolveProbeFrom(t, FsInputsConc)
       \/ ResolveScript(t)
       \/ Spawn(t)
       \/ SpawnCheck(t)
       \/ ThirdLock(t)
       \/ StoreChild(t)
       \/ Respond(t)
  \/ GuardBeginConc
  \/ GuardLock
  \/ GuardCheck
  \/ GuardKill
  \/ GuardWait
  \/ GuardClear

SpecConc == Init /\ [][NextConc]_vars

TypeOK ==
  /\ slot \in {NoChild} \cup [pid : 1..MaxSpawns, port : Ports]
  /\ lock \in {Free, GuardHolder} \cup Callers
  /\ Len(children) <= MaxSpawns
  /\ \A c \in Pids : children[c] \in {"running", "exited", "reaped"}
  /\ killed \subseteq Pids

\* Scheduling: a thread that can take a step eventually takes it; the Mutex
\* eventually grants a lock() that is possible again and again; a child that
\* was sent the kill signal exits.  The host is not obliged to invoke or to
\* send Exit.
ThreadSteps(t) ==
  \/ FirstUnlock(t)
  \/ TryWait(t)
  \/ MatchStatus(t)
  \/ BindProbeFrom(t, OccInputsConc)
  \/ FindPort(t)
  \/ LogSetupFrom(t, LogOutcomesConc)
  \/ LogCheck(t)
  \/ ResolveProbeFrom(t, FsInputsConc)
  \/ ResolveScript(t)
  \/ Spawn(t)
  \/ SpawnCheck(t)
  \/ StoreChild(t)
  \/ Respond(t)

GuardSteps == GuardCheck \/ GuardKill \/ GuardWait \/ GuardClear

Fairness ==
  /\ \A t \in ConcCallers :
       /\ WF_vars(ThreadSteps(t))
       /\ SF_vars(FirstLock(t))
       /\ SF_vars(SecondLock(t))
       /\ SF_vars(ThirdLock(t))
  /\ WF_vars(GuardSteps)
  /\ SF_vars(GuardLock)
  /\ \A c \in 1..MaxSpawns : WF_vars(c \in killed /\ ChildExit(c))

SpecConcFair == SpecConc /\ Fairness

\* ------------------------------------------------------------------ claims

\* a step of invocation t that returns (reaches "done")
Returns(t) == pc[t] # "done" /\ pc'[t] = "done"

\* no try_wait of any invocation has returned Err so far
NoProbeError == ~warned /\ \A t \in Callers : probe[t] # "err"

\* C1: with serialized start_backend invocations interleaved with child
\* exits, and as long as try_wait has never returned Err, at most one child
\* spawned by start_backend is running.
C1_OneLiveChild == NoProbeError => Cardinality(Running) <= 1

\* C1 witness: a second child was spawned after the first one exited, no
\* probe ever erred, and the second child runs and is tracked.
C1_Witness ==
  /\ NoProbeError
  /\ Len(children) = 2
  /\ children[1] = "reaped"
  /\ children[2] = "running"
  /\ slot.pid = 2

\* C2: over the whole child state machine (probe errors included), no
\* reachable state has two children spawned by start_backend running.
C2_NeverTwoRunning == Cardinality(Running) <= 1

\* C3: when try_wait reported the tracked child not exited, the invocation
\* returns AlreadyRunning at once: no port was probed, nothing was spawned,
\* and the slot holds the same child.
C3_AliveRejects ==
  [][\A t \in Callers :
       (pc[t] = "match" /\ probe[t] = "running" /\ pc'[t] # "match") =>
         /\ pc'[t] = "done"
         /\ result'[t] = AlreadyRunning
         /\ slot # NoChild /\ slot' = slot
         /\ lock' = Free
         /\ children' = children
         /\ port'[t] = NoPort /\ spawned'[t] = "none" /\ child'[t] = NoChild]_vars

\* C3 witness: an invocation has returned AlreadyRunning and the tracked
\* child is still running.
C3_Witness ==
  \E t \in Callers :
    /\ pc[t] = "done"
    /\ result[t] = AlreadyRunning
    /\ slot # NoChild
    /\ children[slot.pid] = "running"

\* the inputs of the step of invocation t that is about to run are good: a
\* port is free, the log setup succeeded, a candidate or the fallback
\* exists, the spawn succeeded
InputsGood(t) ==
  /\ pc[t] = "findport" => ~(Ports \subseteq occupied[t])
  /\ pc[t] = "logcheck" => logres[t] = "ok"
  /\ pc[t] = "findscript" =>
       \/ fs[t].exe /\ fs[t].exists \cap {"up3", "up4", "up5"} # {}
       \/ "cwd" \in fs[t].exists
  /\ pc[t] = "spawncheck" => spawned[t] = "ok"

\* C4: when the tracked child has exited, try_wait does not report it
\* running; the invocation then clears the slot and goes on, never returns
\* AlreadyRunning, fails only at a step whose input is bad, and otherwise
\* returns Ok(port) with the slot holding the child it spawned.
C4_RestartAfterExit ==
  [][\A t \in Callers :
       /\ (pc[t] = "trywait" /\ slot # NoChild /\ pc'[t] # "trywait"
             /\ children[slot.pid] = "exited")
            => probe'[t] # "running"
       /\ (pc[t] = "match" /\ probe[t] = "exited" /\ pc'[t] # "match")
            => slot' = NoChild /\ pc'[t] = "bind"
       /\ (probe[t] = "exited" /\ Returns(t))
            => /\ result'[t] # AlreadyRunning
               /\ InputsGood(t) =>
                    /\ result'[t] = Ok(port[t])
                    /\ port[t] \in Ports
                    /\ slot' = child[t]
                    /\ slot'.pid = Len(children)
                    /\ slot'.port = port[t]]_vars

\* C4 witness: after child 1 exited and was reaped by try_wait, the
\* invocation returned Ok and the slot holds child 2.
C4_Witness ==
  \E t \in Callers :
    /\ pc[t] = "done"
    /\ probe[t] = "exited"
    /\ result[t].kind = "Ok"
    /\ children[1] = "reaped"
    /\ slot = child[t]
    /\ slot.pid = 2

\* C5: find_available_port returns the smallest port of 3001..3010 that is
\* not occupied, and none exactly when all ten are occupied; the port of an
\* invocation changes at no other step, the child is spawned with it, and
\* Ok carries it.
C5_SmallestFreePort ==
  [][\A t \in Callers :
       /\ (pc[t] = "findport" /\ pc'[t] # "findport") =>
            IF Ports \subseteq occupied[t]
              THEN port'[t] = NoPort /\ result'[t] = NoPortAvailable
              ELSE /\ port'[t] \in Ports \ occupied[t]
                   /\ \A q \in Ports \ occupied[t] : port'[t] <= q
                   /\ pc'[t] = "logsetup"
       /\ pc[t] \notin {"findport", "done"} => port'[t] = port[t]
       /\ (pc[t] = "spawn" /\ spawned'[t] = "ok") => child'[t].port = port[t]
       /\ (Returns(t) /\ result'[t].kind = "Ok") =>
            /\ result'[t].port = port[t]
            /\ port[t] \in Ports]_vars

\* C5 witness: every port but the last was occupied and the invocation
\* returned Ok(3010).
C5_Witness ==
  \E t \in Callers :
    /\ pc[t] = "done"
    /\ result[t] = Ok(PortHi)
    /\ slot.port = PortHi

\* C6: if every port of the range is occupied when the invocation probes,
\* it returns NoPortAvailable, has spawned nothing, and the slot is empty.
C6_AllPortsOccupied ==
  [][\A t \in Callers :
       (pc[t] = "findport" /\ Ports \subseteq occupied[t] /\ pc'[t] # "findport") =>
         /\ pc'[t] = "done"
         /\ result'[t] = NoPortAvailable
         /\ children' = children
         /\ spawned'[t] = "none" /\ child'[t] = NoChild
         /\ slot' = NoChild]_vars

\* C6 witness: an invocation that found a stale handle has returned
\* NoPortAvailable, and the slot is empty.
C6_Witness ==
  \E t \in Callers :
    /\ pc[t] = "done"
    /\ result[t] = NoPortAvailable
    /\ probe[t] = "exited"
    /\ slot = NoChild

\* C7 as stated: every invocation that returned a failure, AlreadyRunning
\* included, has left the slot empty.
C7_EveryFailureLeavesAbsent ==
  \A t \in Callers :
    (pc[t] = "done" /\ result[t] \in Errors) => slot = NoChild

\* C7 amended: with serialized invocations, an invocation that returned
\* NoPortAvailable, LogSetupFailed, EntryPointNotFound or SpawnFailed has
\* left the slot empty and holds no handle; one that returned
\* AlreadyRunning has left the slot holding the child it probed; either
\* way the lock is free.
C7_FailureLeavesSlotConsistent ==
  \A t \in Callers :
    (pc[t] = "done" /\ result[t] \in Errors) =>
      /\ lock = Free
      /\ child[t] = NoChild
      /\ IF result[t] = AlreadyRunning
           THEN slot # NoChild /\ probe[t] = "running"
           ELSE slot = NoChild

\* C7 witness: an invocation cleared a stale handle, then its spawn failed:
\* it returned SpawnFailed and the slot is empty.
C7_Witness ==
  \E t \in Callers :
    /\ pc[t] = "done"
    /\ result[t] = SpawnFailed
    /\ probe[t] = "exited"
    /\ slot = NoChild

\* C8: when the Exit handler returns, the child the slot tracked has been
\* killed and reaped, the slot is empty and the lock is free.
C8_GuardKillsAndReaps ==
  [][(gpc = "clear" /\ gpc' = "idle") =>
       /\ slot' = NoChild
       /\ lock' = Free
       /\ slot # NoChild =>
            /\ slot.pid \in killed'
            /\ children'[slot.pid] = "reaped"]_vars

\* C8 witness: the handler has returned after killing a child that was
\* still running when it was killed; that child is reaped, the slot empty.
C8_Witness ==
  /\ gpc = "idle"
  /\ guardRuns = 1
  /\ slot = NoChild
  /\ \E c \in killed : children[c] = "reaped"

\* C9: a run of the Exit handler that follows a completed run finds the
\* slot empty, goes from the check straight to the clear (no kill, no
\* wait), and none of its steps changes anything but the lock it takes and
\* releases.
C9_SecondGuardIsNoOp ==
  [][(guardRuns >= 1 /\ gpc' # gpc) =>
       /\ slot = NoChild /\ slot' = NoChild
       /\ gpc' \notin {"kill", "wait"}
       /\ gpc' = "idle" => lock' = Free
       /\ UNCHANGED <<children, killed, warned, pc, locals, result>>]_vars

\* C9 witness: two runs of the handler have completed, the first of which
\* killed a child.
C9_Witness ==
  /\ guardRuns = 2
  /\ gpc = "idle"
  /\ killed # {}
  /\ slot = NoChild

\* C10: once the Exit handler has completed, no child that start_backend
\* ever spawned is still running.
C10_NoOrphanAfterGuard ==
  (guardRuns >= 1 /\ gpc = "idle") => Running = {}

\* the executable-relative candidates that exist, as the invocation saw them
ExistingCandidates(t) ==
  {c \in {"up3", "up4", "up5"} : fs[t].exe /\ c \in fs[t].exists}

\* C11: the resolution takes the first existing candidate in the order 3,
\* 4, 5 ascents, the working-directory path only when none of them exists,
\* and returns EntryPointNotFound exactly when neither exists; in that case
\* nothing is spawned and the slot is empty.
C11_EntryPointResolution ==
  [][\A t \in Callers :
       (pc[t] = "findscript" /\ pc'[t] # "findscript") =>
         /\ IF "up3" \in ExistingCandidates(t) THEN script'[t] = "up3"
            ELSE IF "up4" \in ExistingCandidates(t) THEN script'[t] = "up4"
            ELSE IF "up5" \in ExistingCandidates(t) THEN script'[t] = "up5"
            ELSE IF "cwd" \in fs[t].exists THEN script'[t] = "cwd"
            ELSE script'[t] = "none"
         /\ result'[t] = EntryPointNotFound <=> script'[t] = "none"
         /\ IF script'[t] = "none"
              THEN /\ pc'[t] = "done"
                   /\ children' = children
                   /\ spawned'[t] = "none" /\ child'[t] = NoChild
                   /\ slot' = NoChild
              ELSE pc'[t] = "spawn" /\ result'[t] = NoResult]_vars

\* C11 witness: an invocation that had cleared a stale handle found no
\* entry point: it returned EntryPointNotFound and the slot is empty.
C11_Witness ==
  \E t \in Callers :
    /\ pc[t] = "done"
    /\ result[t] = EntryPointNotFound
    /\ probe[t] = "exited"
    /\ slot = NoChild

\* the positions of start_backend between the second block and the last
\* lock(): port probing, log setup, entry-point resolution and spawn
LaunchSteps ==
  {"bind", "findport", "logsetup", "logcheck", "resolve", "findscript",
   "spawn", "spawncheck"}

\* C12: an invocation that is probing ports, setting up the log, resolving
\* the entry point or spawning does not hold the lock, nor does it while it
\* waits for the last lock(); the handle it got from spawn is not in the
\* slot before it holds that later lock.
C12_SpawnOutsideLock ==
  \A t \in Callers :
    /\ pc[t] \in LaunchSteps \cup {"lock3"} => lock # t
    /\ pc[t] \in LaunchSteps \cup {"lock3", "store"} /\ child[t] # NoChild
         => slot # child[t]
    /\ pc[t] = "store" => lock = t /\ child[t] # NoChild

\* C12 witness: an invocation that went through the locked liveness check
\* of a tracked child has spawned, and the lock is free.
C12_Witness ==
  \E t \in Callers :
    /\ pc[t] = "spawncheck"
    /\ spawned[t] = "ok"
    /\ probe[t] = "exited"
    /\ lock = Free

\* C13: the slot starts empty; it becomes populated only by the store of an
\* invocation whose spawn succeeded, and becomes empty only by the Ok(Some)
\* arm, by the Err arm, or by the Exit handler; it changes in no other way.
\* In particular a child that exits and the first lock block leave it alone.
C13_SlotMutationPaths ==
  /\ slot = NoChild
  /\ [][/\ slot' # slot =>
              IF slot = NoChild
                THEN \E t \in Callers :
                       /\ pc[t] = "store" /\ pc'[t] = "done"
                       /\ spawned[t] = "ok"
                       /\ slot' = child[t]
                       /\ result'[t] = Ok(port[t])
                ELSE /\ slot' = NoChild
                     /\ \/ \E t \in Callers :
                             /\ pc[t] = "match" /\ pc'[t] = "bind"
                             /\ probe[t] \in {"exited", "err"}
                        \/ gpc = "clear" /\ gpc' = "idle"
        /\ children' # children => slot' = slot
        /\ \A t \in Callers : pc[t] \in {"lock1", "read1"} => slot' = slot]_vars

\* C13 witness: the tracked child exited, the slot kept its handle until the
\* next invocation's try_wait saw the exit, and that invocation cleared it.
C13_Witness ==
  \E t \in Callers :
    /\ pc[t] = "bind"
    /\ probe[t] = "exited"
    /\ slot = NoChild
    /\ children = <<"reaped">>

\* C14: when try_wait returned Err the invocation does not return: it warns,
\* clears the slot, releases the lock and goes on to the port scan with
\* nothing else changed, as from an empty slot.  AlreadyRunning is returned
\* only when try_wait reported the child running, which it never does for
\* a child that has exited.
C14_ProbeErrorResets ==
  [][\A t \in Callers :
       /\ (pc[t] = "match" /\ probe[t] = "err" /\ pc'[t] # "match") =>
            /\ pc'[t] = "bind"
            /\ result'[t] = NoResult
            /\ slot' = NoChild
            /\ lock' = Free
            /\ warned'
            /\ UNCHANGED <<children, killed, occupied, port, logres, fs,
                           script, spawned, child>>
       /\ (Returns(t) /\ result'[t] = AlreadyRunning) =>
            /\ pc[t] = "match"
            /\ probe[t] = "running"
       /\ (pc[t] = "trywait" /\ pc'[t] = "match" /\ probe'[t] = "running") =>
            children[slot.pid] = "running"]_vars

\* C14 witness: try_wait returned Err and the invocation went on to spawn a
\* child and return Ok.
C14_Witness ==
  \E t \in Callers :
    /\ pc[t] = "done"
    /\ probe[t] = "err"
    /\ result[t].kind = "Ok"
    /\ slot = child[t]

\* C17: the failure conditions are evaluated in the order AlreadyRunning,
\* NoPortAvailable, LogSetupFailed, EntryPointNotFound, SpawnFailed: each
\* error is returned from its own step, with every earlier step passed and
\* no later step performed.
C17_FailureOrder ==
  [][\A t \in Callers :
       Returns(t) =>
         /\ result'[t] = AlreadyRunning <=> pc[t] = "match"
         /\ result'[t] = NoPortAvailable <=> pc[t] = "findport"
         /\ result'[t] = LogSetupFailed <=> pc[t] = "logcheck"
         /\ result'[t] = EntryPointNotFound <=> pc[t] = "findscript"
         /\ result'[t] = SpawnFailed <=> pc[t] = "spawncheck"
         /\ result'[t].kind = "Ok" <=> pc[t] = "store"
         /\ result'[t] = AlreadyRunning =>
              /\ port'[t] = NoPort /\ logres'[t] = "none"
              /\ script'[t] = "none" /\ spawned'[t] = "none"
         /\ result'[t] = NoPortAvailable =>
              /\ probe'[t] # "running"
              /\ port'[t] = NoPort /\ logres'[t] = "none"
              /\ script'[t] = "none" /\ spawned'[t] = "none"
         /\ result'[t] = LogSetupFailed =>
              /\ probe'[t] # "running"
              /\ port'[t] \in Ports /\ logres'[t] \notin {"none", "ok"}
              /\ script'[t] = "none" /\ spawned'[t] = "none"
         /\ result'[t] = EntryPointNotFound =>
              /\ probe'[t] # "running"
              /\ port'[t] \in Ports /\ logres'[t] = "ok"
              /\ script'[t] = "none" /\ spawned'[t] = "none"
         /\ result'[t] = SpawnFailed =>
              /\ probe'[t] # "running"
              /\ port'[t] \in Ports /\ logres'[t] = "ok"
              /\ script'[t] # "none" /\ spawned'[t] = "fail"
              /\ child'[t] = NoChild]_vars

\* C17 witness: an invocation that had cleared a stale handle and found a
\* port has returned LogSetupFailed without resolving or spawning.
C17_Witness ==
  \E t \in Callers :
    /\ pc[t] = "done"
    /\ result[t] = LogSetupFailed
    /\ probe[t] = "exited"
    /\ port[t] \in Ports
    /\ script[t] = "none"
    /\ spawned[t] = "none"

\* C18: a child is created only by the spawn step of an invocation that has
\* not spawned yet, one child per step; a failed spawn returns at once (no
\* retry); an invocation returns Ok exactly when it has spawned a child, and
\* then the slot holds that child, whose --port argument is the port
\* returned; an invocation that returns an error has spawned none.
C18_OneSpawnPerOk ==
  [][/\ Len(children') # Len(children) =>
          \E t \in Callers :
            /\ pc[t] = "spawn" /\ pc'[t] = "spawncheck"
            /\ child[t] = NoChild
            /\ Len(children') = Len(children) + 1
            /\ child'[t].pid = Len(children')
            /\ spawned'[t] = "ok"
     /\ \A t \in Callers :
          /\ (pc[t] = "spawncheck" /\ spawned[t] = "fail" /\ pc'[t] # pc[t])
               => pc'[t] = "done" /\ result'[t] = SpawnFailed
          /\ pc[t] # "spawn" /\ pc'[t] # "idle" => child'[t] = child[t]
          /\ Returns(t) =>
               /\ result'[t].kind = "Ok" <=> child'[t] # NoChild
               /\ result'[t] \in Errors <=> child'[t] = NoChild
               /\ result'[t].kind = "Ok" =>
                    /\ slot' = child'[t]
                    /\ slot'.port = result'[t].port
                    /\ children'[slot'.pid] \in {"running", "exited"}
               /\ result'[t] \in Errors => spawned'[t] \in {"none", "fail"}]_vars

\* C18 witness: the second successful invocation has returned Ok(p); the
\* slot holds the child it spawned, started with --port p.
C18_Witness ==
  \E t \in Callers :
    /\ pc[t] = "done"
    /\ result[t].kind = "Ok"
    /\ slot = child[t]
    /\ slot.pid = 2
    /\ slot.port = result[t].port

\* the positions at which the Exit handler, or an invocation, is inside a
\* lock section
GuardLocked == gpc \in {"check", "kill", "wait", "clear"}
InLockSection(t) == pc[t] \in {"read1", "trywait", "match", "store"}

\* C16: the Exit handler holds the lock from its check to its clear, and
\* kills, then waits, then clears; while it does no invocation is inside a
\* lock section and nothing else changes the slot; when it clears a
\* populated slot the child in it has been killed and reaped.
C16_GuardAtomicKillWaitClear ==
  [][/\ GuardLocked => lock = GuardHolder
     /\ GuardLocked => \A t \in Callers : ~InLockSection(t)
     /\ GuardLocked /\ slot' # slot => gpc = "clear" /\ gpc' = "idle"
     /\ gpc = "check" /\ gpc' # gpc =>
          gpc' = IF slot = NoChild THEN "clear" ELSE "kill"
     /\ gpc = "kill" /\ gpc' # gpc =>
          gpc' = "wait" /\ slot.pid \in killed' /\ lock' = GuardHolder
     /\ gpc = "wait" /\ gpc' # gpc =>
          gpc' = "clear" /\ children'[slot.pid] = "reaped" /\ lock' = GuardHolder
     /\ gpc = "clear" /\ gpc' # gpc =>
          /\ gpc' = "idle" /\ slot' = NoChild /\ lock' = Free
          /\ slot # NoChild =>
               slot.pid \in killed /\ children[slot.pid] = "reaped"]_vars

\* C16 witness: the handler has killed the tracked child and is waiting
\* for it, while an invocation that has spawned waits for the lock.
C16_Witness ==
  \E t \in Callers :
    /\ gpc = "wait"
    /\ children[slot.pid] = "running"
    /\ pc[t] = "lock3"
    /\ child[t] # NoChild

\* the positions at which an invocation waits for the lock
WaitsForLock(t) == pc[t] \in {"lock1", "lock2", "lock3"}

\* C20: an invocation holds the lock only inside its lock sections: not
\* when it has returned, not between the sections, and not when it calls
\* lock(); and every invocation, and the Exit handler, that waits for the
\* lock eventually holds it.
C20_LockEventuallyAcquired ==
  /\ [](\A t \in Callers : ~InLockSection(t) => lock # t)
  /\ \A t \in ConcCallers : WaitsForLock(t) ~> (lock = t)
  /\ (gpc = "lock") ~> (lock = GuardHolder)

\* C20 witness: an invocation that has spawned its child waits for the
\* lock while another invocation holds it inside a lock section.
C20_Witness ==
  \E t, u \in Callers :
    /\ t # u
    /\ pc[t] = "lock3"
    /\ lock = u
    /\ InLockSection(u)

\* two children are alive and the slot tracks only the one stored last
DoubleSpawn ==
  \E c1, c2 \in Running : c1 < c2 /\ slot # NoChild /\ slot.pid = c2

\* C15 (second half): with serialized invocations there is no state in
\* which two children are alive while the slot tracks only the handle
\* stored last.
C15_SerializedNoDoubleSpawn == ~DoubleSpawn

\* C15 (first half): the state that two concurrent invocations reach when
\* both pass the check on an empty slot and both spawn: no try_wait error
\* occurred, both returned Ok, two children are alive and the slot tracks
\* only the one stored last.
C15_RaceState ==
  /\ DoubleSpawn
  /\ ~warned
  /\ \A t \in ConcCallers : pc[t] = "done" /\ result[t].kind = "Ok"

\* every invocation and the Exit handler have completed
Quiescent ==
  /\ gpc = "idle"
  /\ \A t \in Callers : pc[t] \in {"idle", "done"}

\* C19: once the Exit handler has run and it and every invocation have
\* completed, the slot is Absent and no spawned child is alive (no try_wait
\* error having occurred, so that no handle was dropped by the probe).
C19_GuardCoversInFlightLaunch ==
  (guardRuns >= 1 /\ Quiescent /\ ~warned) => (slot = NoChild /\ Running = {})

====
